---- MODULE Spec2Model ----
(***************************************************************************)
(* The Wikipedia obscurity game: the Flask handlers of app.py (index,      *)
(* start_game, game, navigate, reset_game) acting on the cookie session    *)
(* of one browser, and the game.py helpers they call.                      *)
(*                                                                         *)
(* Text is a sequence of characters; a percent escape ("%20") and the      *)
(* fixed pieces of a URL ("https://", "en.wikipedia.org", "/wiki/") are    *)
(* one element each.  An article title is such a sequence.                 *)
(***************************************************************************)
EXTENDS Integers, Sequences, FiniteSets, TLC

\* ------------------------------------------------------------------ bounds
\* navigate is explored up to this many clicks past max_clicks
MaxOverrun == 1

\* navigate requests race only while fewer navigations than this succeeded
MaxRaceClicks == 2

\* ------------------------------------------------------- program constants
MinClicks == 1
MaxClicks == 10
DefaultClicks == 3
max_attempts == 5

\* ------------------------------------------------------------ articles
ArtA == <<"A">>
ArtAB == <<"A", " ", "B">>
TalkT == <<"T">>
Empty == <<>>

\* the titles the encyclopedia knows, with their namespace
MainArticles == {ArtA, ArtAB}
OtherNamespace == {TalkT}

\* ------------------------------------------------------------ text helpers
Digits == <<"0", "1", "2", "3", "4", "5", "6", "7", "8", "9">>

IsDigit(c) == \E i \in 1..10 : Digits[i] = c

DigitVal(c) == (CHOOSE i \in 1..10 : Digits[i] = c) - 1

RECURSIVE LStrip(_)
LStrip(s) == IF s # <<>> /\ Head(s) = " " THEN LStrip(Tail(s)) ELSE s

RECURSIVE RStrip(_)
RStrip(s) ==
    IF s # <<>> /\ s[Len(s)] = " " THEN RStrip(SubSeq(s, 1, Len(s) - 1)) ELSE s

\* str.strip()
Strip(s) == RStrip(LStrip(s))

RECURSIVE DigitsValue(_, _)
DigitsValue(s, acc) ==
    IF s = <<>> THEN acc ELSE DigitsValue(Tail(s), 10 * acc + DigitVal(Head(s)))

AllDigits(s) == s # <<>> /\ \A i \in 1..Len(s) : IsDigit(s[i])

\* int(text): surrounding whitespace is ignored, one optional sign, then
\* decimal digits; anything else raises ValueError (ok = FALSE)
ParseInt(text) ==
    LET t == Strip(text)
        signed == t # <<>> /\ Head(t) \in {"-", "+"}
        body == IF signed THEN Tail(t) ELSE t
    IN  IF AllDigits(body)
        THEN [ok |-> TRUE,
              val |-> IF signed /\ Head(t) = "-"
                      THEN 0 - DigitsValue(body, 0) ELSE DigitsValue(body, 0)]
        ELSE [ok |-> FALSE, val |-> 0]

\* a form field: present with a text, or absent
Absent == [present |-> FALSE, text |-> <<>>]
Field(t) == [present |-> TRUE, text |-> t]

\* the range test written 0 <= clicks <= 10
ClickCount_ZeroAllowed(field) ==
    LET p == IF field.present THEN ParseInt(field.text)
             ELSE [ok |-> TRUE, val |-> DefaultClicks]
    IN  IF ~p.ok
        THEN [ok |-> FALSE, val |-> 0,
              flash |-> "Invalid click count. Please enter a number between 1 and 10."]
        ELSE IF ~(0 <= p.val /\ p.val <= MaxClicks)
        THEN [ok |-> FALSE, val |-> 0,
              flash |-> "Click count must be between 1 and 10."]
        ELSE [ok |-> TRUE, val |-> p.val, flash |-> "none"]

\* int(request.form.get('clicks', 3)) and the range test of start_game:
\* ok with the click count, or the flashed error
ClickCount(field) ==
    LET p == IF field.present THEN ParseInt(field.text)
             ELSE [ok |-> TRUE, val |-> DefaultClicks]
    IN  IF ~p.ok
        THEN [ok |-> FALSE, val |-> 0,
              flash |-> "Invalid click count. Please enter a number between 1 and 10."]
        ELSE IF ~(MinClicks <= p.val /\ p.val <= MaxClicks)
        THEN [ok |-> FALSE, val |-> 0,
              flash |-> "Click count must be between 1 and 10."]
        ELSE [ok |-> TRUE, val |-> p.val, flash |-> "none"]

\* ------------------------------------------------- game.py: URL validation
HttpSchemes == {"https://", "http://"}

\* the four regular expressions of validate_wikipedia_url, in order: the
\* fixed prefix of each, as the set of elements allowed at each position
patterns ==
    << <<HttpSchemes, {"en.wikipedia.org"}, {"/wiki/"}>>,
       <<HttpSchemes, {"wikipedia.org"}, {"/wiki/"}>>,
       <<{"en.wikipedia.org"}, {"/wiki/"}>>,
       <<{"wikipedia.org"}, {"/wiki/"}>> >>

\* the group ([^#?]+) starting at position i: the longest run without # or ?
RECURSIVE TitleRun(_, _)
TitleRun(url, i) ==
    IF i > Len(url) \/ url[i] \in {"#", "?"} THEN <<>>
    ELSE <<url[i]>> \o TitleRun(url, i + 1)

\* re.match(pattern, url): matched, and group(1)
ReMatch(pat, url) ==
    LET n == Len(pat)
        prefixOk == Len(url) >= n /\ \A i \in 1..n : url[i] \in pat[i]
        grp == IF prefixOk THEN TitleRun(url, n + 1) ELSE <<>>
    IN  [matched |-> prefixOk /\ grp # <<>>, group |-> grp]

\* urllib.parse.unquote on one element
UnquoteChar(c) ==
    CASE c = "%20" -> " "
      [] c = "%5F" -> "_"
      [] c = "%41" -> "A"
      [] c = "%42" -> "B"
      [] OTHER -> c

\* a URL handed on without decoding its percent escapes
unquote_Identity(s) == s

unquote(s) == [i \in 1..Len(s) |-> UnquoteChar(s[i])]

\* str.replace('_', ' ')
ReplaceUnderscore(s) == [i \in 1..Len(s) |-> IF s[i] = "_" THEN " " ELSE s[i]]

\* The MediaWiki answer ("prop=info", formatversion 2) for a title: the one
\* page of the answer, with the title normalised by the server (surrounding
\* blanks dropped), missing unless the encyclopedia knows it.
PageInfo(title) ==
    LET t == Strip(title)
    IN  [missing |-> t \notin (MainArticles \cup OtherNamespace),
         ns |-> IF t \in OtherNamespace THEN 1 ELSE 0,
         title |-> t]

\* how a request to the API can end
Transport == {"ok", "RequestException", "JSONDecodeError", "nopages"}

\* None, as returned by validate_wikipedia_url and get_random_wikipedia_page
NoTitle == <<>>

\* the body of the pattern loop for patterns i.. of validate_wikipedia_url:
\* the title of the first pattern that matches and whose page checks out
RECURSIVE ValidateFrom(_, _, _)
ValidateFrom(i, url, transport) ==
    IF i > Len(patterns) THEN NoTitle
    ELSE LET m == ReMatch(patterns[i], url)
             article_title == ReplaceUnderscore(unquote(m.group))
             page == PageInfo(article_title)
         IN  IF m.matched /\ transport = "ok" /\ ~page.missing /\ page.ns = 0
             THEN page.title
             ELSE ValidateFrom(i + 1, url, transport)

validate_wikipedia_url(url, transport) == ValidateFrom(1, url, transport)

\* ------------------------------------------------ game.py: random article
\* one attempt of get_random_wikipedia_page ends in an exception, in an
\* answer without pages, in a page without title, or in a title
RandomAttempts ==
    {[kind |-> k, title |-> NoTitle] :
        k \in {"RequestException", "JSONDecodeError", "empty", "notitle"}}
    \cup {[kind |-> "title", title |-> t] : t \in MainArticles}

\* the retry loop from attempt number `attempt` (0-based) on: the title
\* returned (NoTitle for None) and the number of requests made
RECURSIVE RandomFrom(_, _)
RandomFrom(attempt, outs) ==
    IF attempt >= max_attempts THEN [title |-> NoTitle, attempts |-> attempt]
    ELSE IF outs[attempt + 1].kind = "title" /\ outs[attempt + 1].title # <<>>
    THEN [title |-> outs[attempt + 1].title, attempts |-> attempt + 1]
    ELSE RandomFrom(attempt + 1, outs)

\* get_random_wikipedia_page giving up after the first attempt
get_random_wikipedia_page_Once(outs) ==
    IF outs[1].kind = "title" /\ outs[1].title # <<>>
    THEN [title |-> outs[1].title, attempts |-> 1]
    ELSE [title |-> NoTitle, attempts |-> 1]

get_random_wikipedia_page(outs) == RandomFrom(0, outs)

\* ------------------------------------------------ game.py: outgoing links
\* one answer of the links query: an exception, no pages, a missing page,
\* or a batch of link titles with or without a "continue" marker
LinkBatches ==
    {[kind |-> k, links |-> <<>>, more |-> FALSE] :
        k \in {"RequestException", "nopages", "missing"}}
    \cup {[kind |-> "links", links |-> <<ArtAB>>, more |-> m] : m \in BOOLEAN}
    \cup {[kind |-> "links", links |-> <<Empty, ArtA>>, more |-> FALSE]}
    \cup {[kind |-> "links", links |-> <<>>, more |-> FALSE]}

\* the inner for loop: link titles that are not empty are appended
RECURSIVE AppendTitles(_, _)
AppendTitles(links, page_links) ==
    IF page_links = <<>> THEN links
    ELSE AppendTitles(IF Head(page_links) # <<>>
                      THEN Append(links, Head(page_links)) ELSE links,
                      Tail(page_links))

\* the while loop of get_hyperlinks_from_page over the answers `batches`,
\* from answer i on, with the links gathered so far
RECURSIVE LinksFrom(_, _, _)
LinksFrom(i, batches, links) ==
    IF i > Len(batches) THEN links
    ELSE LET b == batches[i]
         IN  CASE b.kind = "RequestException" -> <<>>
               [] b.kind = "missing" -> <<>>
               [] b.kind = "nopages" -> links
               [] OTHER ->
                    IF b.more
                    THEN LinksFrom(i + 1, batches, AppendTitles(links, b.links))
                    ELSE AppendTitles(links, b.links)

get_hyperlinks_from_page(batches) == LinksFrom(1, batches, <<>>)

\* --------------------------------------------------------------- requests
\* values posted as the 'clicks' field of the start form
ClickFields ==
    {Absent, Field(<<>>), Field(<<"x">>), Field(<<"1", "0">>),
     Field(<<"1", "1">>), Field(<<"-", "1">>), Field(<<" ", "5", " ">>),
     Field(<<"+", "2">>), Field(<<"3", ".", "5">>)}
    \cup {Field(<<Digits[i]>>) : i \in 1..10}

\* values posted as the 'url' field of the start form
UrlFields ==
    {Absent, Field(<<>>), Field(<<" ">>),
     Field(<<"https://", "en.wikipedia.org", "/wiki/", "A">>),
     Field(<<" ", "https://", "en.wikipedia.org", "/wiki/", "%41", " ">>),
     Field(<<"http://", "wikipedia.org", "/wiki/", "A", "_", "B">>),
     Field(<<"en.wikipedia.org", "/wiki/", "A", "%20", "B">>),
     Field(<<"wikipedia.org", "/wiki/", "A", "%5F", "B", "#", "x">>),
     Field(<<"https://", "en.wikipedia.org", "/wiki/", "T">>),
     Field(<<"https://", "en.wikipedia.org", "/wiki/", "Z">>),
     Field(<<"https://", "en.wikipedia.org", "/wiki/">>),
     Field(<<"https://", "de.wikipedia.org", "/wiki/", "A">>),
     Field(<<"n", "o", "t", " ", "a", " ", "u", "r", "l">>)}

\* values posted as the 'next_page' field of the navigate form
NextPageFields == {Absent, Field(<<>>), Field(ArtA), Field(ArtAB)}

\* the answers the random-article query can give over the attempts
RandomAnswers == [1..max_attempts -> RandomAttempts]

\* the random-article query failing at every attempt
NoAnswers == [i \in 1..max_attempts |-> [kind |-> "RequestException", title |-> NoTitle]]

\* the url fields that are empty once stripped
BlankUrls == {u \in UrlFields : Strip(u.text) = <<>>}

\* the answers the links query can give: at most two, the first with more
LinkAnswers ==
    {<<b>> : b \in {x \in LinkBatches : ~x.more}}
    \cup {<<b, c>> : b \in {x \in LinkBatches : x.more},
                     c \in {x \in LinkBatches : ~x.more}}

\* ------------------------------------------------------------------ state
VARIABLES
    game_state,   \* session['game_state'] of the browser's cookie session
    resp,         \* the response to the last request
    prev,         \* the request before the last, if a start, a reset or a view
    nav_count,    \* navigations that succeeded since the game was started
    inflight      \* navigate requests that read the session and have not
                  \* all answered yet (used when requests race)

vars == <<game_state, resp, prev, nav_count, inflight>>

\* session.get('game_state') when the key is not in the session
NoGame ==
    [current_page |-> <<>>, clicks_used |-> 0, max_clicks |-> 0,
     path |-> <<>>, start_page |-> <<>>]

NoLinks == <<>>

\* a response: the handler that answered, the next_page it was posted (for
\* navigate), what it returned, the message it flashed, whether the request
\* came with a game_state, and for a rendered game or result page the
\* values handed to the template
Response(op, req, kind, flash, had, view, links, no_links) ==
    [op |-> op, req |-> req, kind |-> kind, flash |-> flash, had |-> had,
     view |-> view, links |-> links, no_links |-> no_links]

\* what is remembered of the response before the last one: a start, a
\* reset or a view with its outcome, any other request as "other"
Summary(r) ==
    IF r.op \in {"start", "reset", "view"}
    THEN [op |-> r.op, kind |-> r.kind, had |-> r.had]
    ELSE [op |-> "other", kind |-> "none", had |-> FALSE]

Init ==
    /\ game_state = NoGame
    /\ resp = Response("none", Absent, "none", "none", FALSE, NoGame, NoLinks, FALSE)
    /\ prev = Summary(resp)
    /\ nav_count = 0
    /\ inflight = <<>>

\* --------------------------------------------------------- app.py: index
\* the game state and the response of index()
index(gs) ==
    [game_state |-> NoGame,
     resp |-> Response("index", Absent, "render_index", "none", gs # NoGame,
                       NoGame, NoLinks, FALSE)]

\* GET /
Index ==
    /\ game_state' = index(game_state).game_state
    /\ resp' = index(game_state).resp
    /\ prev' = Summary(resp)
    /\ nav_count' = 0
    /\ UNCHANGED inflight

\* ---------------------------------------------------- app.py: start_game
\* the validation of start_game: the flashed error, or the start page and
\* the click count of the game to create
StartCheck(clicks, urlField, transport, outs) ==
    LET url == Strip(urlField.text)
        c == ClickCount(clicks)
        article_title == validate_wikipedia_url(url, transport)
        random_page == get_random_wikipedia_page(outs).title
        Fail(msg) == [ok |-> FALSE, flash |-> msg, start_page |-> NoTitle,
                      clicks |-> 0]
    IN  IF ~c.ok THEN Fail(c.flash)
        ELSE IF url # <<>>
        THEN IF article_title = <<>>
             THEN Fail("Please enter a valid Wikipedia article URL")
             ELSE [ok |-> TRUE, flash |-> "none", start_page |-> article_title,
                   clicks |-> c.val]
        ELSE IF random_page = <<>>
             THEN Fail("Failed to get a random Wikipedia page. Please try again.")
             ELSE [ok |-> TRUE, flash |-> "none", start_page |-> random_page,
                   clicks |-> c.val]

\* every outcome of the validation over the requests and answers above
\* (a request with a url makes no random query, one without makes no
\* validation query)
StartChecks ==
    {StartCheck(c, u, t, NoAnswers) :
        c \in ClickFields, u \in UrlFields \ BlankUrls, t \in Transport}
    \cup {StartCheck(c, u, "ok", o) :
            c \in ClickFields, u \in BlankUrls, o \in RandomAnswers}

\* the game state start_game stores
NewGame(start_page, clicks) ==
    [current_page |-> start_page, clicks_used |-> 0, max_clicks |-> clicks,
     path |-> <<start_page>>, start_page |-> start_page]

\* start_game dropping the stored game when the validation fails
start_game_ClearOnFail(gs, chk) ==
    IF ~chk.ok
    THEN [game_state |-> NoGame,
          resp |-> Response("start", Absent, "redirect_index", chk.flash,
                            gs # NoGame, NoGame, NoLinks, FALSE)]
    ELSE [game_state |-> NewGame(chk.start_page, chk.clicks),
          resp |-> Response("start", Absent, "redirect_game", "none",
                            gs # NoGame, NoGame, NoLinks, FALSE)]

\* start_game filling in only what the stored game lacks (setdefault), so
\* that a stored game keeps its path and its clicks
start_game_KeepOld(gs, chk) ==
    IF ~chk.ok
    THEN [game_state |-> gs,
          resp |-> Response("start", Absent, "redirect_index", chk.flash,
                            gs # NoGame, NoGame, NoLinks, FALSE)]
    ELSE [game_state |-> IF gs = NoGame
                         THEN NewGame(chk.start_page, chk.clicks) ELSE gs,
          resp |-> Response("start", Absent, "redirect_game", "none",
                            gs # NoGame, NoGame, NoLinks, FALSE)]

\* the game state and the response of start_game() for a validation outcome
start_game(gs, chk) ==
    IF ~chk.ok
    THEN [game_state |-> gs,
          resp |-> Response("start", Absent, "redirect_index", chk.flash,
                            gs # NoGame, NoGame, NoLinks, FALSE)]
    ELSE [game_state |-> NewGame(chk.start_page, chk.clicks),
          resp |-> Response("start", Absent, "redirect_game", "none",
                            gs # NoGame, NoGame, NoLinks, FALSE)]

\* POST /start
Start ==
    \E chk \in StartChecks :
        /\ game_state' = start_game(game_state, chk).game_state
        /\ resp' = start_game(game_state, chk).resp
        /\ prev' = Summary(resp)
        /\ nav_count' = IF chk.ok THEN 0 ELSE nav_count
        /\ UNCHANGED inflight

\* ---------------------------------------------------------- app.py: game
\* the link lists get_hyperlinks_from_page can return
LinkResults == {get_hyperlinks_from_page(a) : a \in LinkAnswers}

\* game() with the game-over test written > instead of >=
game_Strict(gs, links) ==
    IF gs = NoGame
    THEN Response("view", Absent, "redirect_index",
                  "No active game. Please start a new game.", FALSE,
                  NoGame, NoLinks, FALSE)
    ELSE IF gs.clicks_used > gs.max_clicks
    THEN Response("view", Absent, "render_result", "none", TRUE, gs,
                  NoLinks, FALSE)
    ELSE IF links = <<>>
    THEN Response("view", Absent, "render_result",
                  "No more links available from this page!", TRUE, gs,
                  NoLinks, TRUE)
    ELSE Response("view", Absent, "render_game", "none", TRUE, gs, links, FALSE)

\* game() without the test for an empty link list
game_NoEmptyCheck(gs, links) ==
    IF gs = NoGame
    THEN Response("view", Absent, "redirect_index",
                  "No active game. Please start a new game.", FALSE,
                  NoGame, NoLinks, FALSE)
    ELSE IF gs.clicks_used >= gs.max_clicks
    THEN Response("view", Absent, "render_result", "none", TRUE, gs,
                  NoLinks, FALSE)
    ELSE Response("view", Absent, "render_game", "none", TRUE, gs, links, FALSE)

\* game() rendering the stored game although the request came without one
game_NoSessionCheck(gs, links) ==
    IF gs.clicks_used >= gs.max_clicks
    THEN Response("view", Absent, "render_result", "none", gs # NoGame, gs,
                  NoLinks, FALSE)
    ELSE IF links = <<>>
    THEN Response("view", Absent, "render_result",
                  "No more links available from this page!", gs # NoGame, gs,
                  NoLinks, TRUE)
    ELSE Response("view", Absent, "render_game", "none", gs # NoGame, gs,
                  links, FALSE)

\* the response of game() to a request with game state gs, the links query
\* returning links
game(gs, links) ==
    IF gs = NoGame
    THEN Response("view", Absent, "redirect_index",
                  "No active game. Please start a new game.", FALSE,
                  NoGame, NoLinks, FALSE)
    ELSE IF gs.clicks_used >= gs.max_clicks
    THEN Response("view", Absent, "render_result", "none", TRUE, gs,
                  NoLinks, FALSE)
    ELSE IF links = <<>>
    THEN Response("view", Absent, "render_result",
                  "No more links available from this page!", TRUE, gs,
                  NoLinks, TRUE)
    ELSE Response("view", Absent, "render_game", "none", TRUE, gs, links, FALSE)

\* GET /game counting the view as a click
View_ConsumesClick ==
    \E links \in LinkResults :
        /\ resp' = game(game_state, links)
        /\ prev' = Summary(resp)
        /\ game_state' = IF game_state = NoGame THEN game_state
                         ELSE [game_state EXCEPT !.clicks_used = @ + 1]
        /\ UNCHANGED <<nav_count, inflight>>

\* GET /game
View ==
    \E links \in LinkResults :
        /\ resp' = game(game_state, links)
        /\ prev' = Summary(resp)
        /\ UNCHANGED <<game_state, nav_count, inflight>>

\* ------------------------------------------------------ app.py: navigate
\* navigate() forgetting to append to the path
navigate_NoAppend(gs, next_page) ==
    IF gs = NoGame
    THEN [game_state |-> gs,
          resp |-> Response("navigate", next_page, "redirect_index",
                            "No active game. Please start a new game.", FALSE,
                            NoGame, NoLinks, FALSE)]
    ELSE IF ~next_page.present \/ next_page.text = <<>>
    THEN [game_state |-> gs,
          resp |-> Response("navigate", next_page, "redirect_game",
                            "Invalid selection. Please try again.", TRUE,
                            NoGame, NoLinks, FALSE)]
    ELSE [game_state |->
            [gs EXCEPT !.current_page = next_page.text,
                       !.clicks_used = @ + 1],
          resp |-> Response("navigate", next_page, "redirect_game", "none",
                            TRUE, NoGame, NoLinks, FALSE)]

\* navigate() inserting the page at the front of the path
navigate_Prepend(gs, next_page) ==
    IF gs = NoGame
    THEN [game_state |-> gs,
          resp |-> Response("navigate", next_page, "redirect_index",
                            "No active game. Please start a new game.", FALSE,
                            NoGame, NoLinks, FALSE)]
    ELSE IF ~next_page.present \/ next_page.text = <<>>
    THEN [game_state |-> gs,
          resp |-> Response("navigate", next_page, "redirect_game",
                            "Invalid selection. Please try again.", TRUE,
                            NoGame, NoLinks, FALSE)]
    ELSE [game_state |->
            [gs EXCEPT !.current_page = next_page.text,
                       !.clicks_used = @ + 1,
                       !.path = <<next_page.text>> \o @],
          resp |-> Response("navigate", next_page, "redirect_game", "none",
                            TRUE, NoGame, NoLinks, FALSE)]

\* navigate() testing next_page against None only, so that an empty text
\* is followed like a title
navigate_NoneOnly(gs, next_page) ==
    IF gs = NoGame
    THEN [game_state |-> gs,
          resp |-> Response("navigate", next_page, "redirect_index",
                            "No active game. Please start a new game.", FALSE,
                            NoGame, NoLinks, FALSE)]
    ELSE IF ~next_page.present
    THEN [game_state |-> gs,
          resp |-> Response("navigate", next_page, "redirect_game",
                            "Invalid selection. Please try again.", TRUE,
                            NoGame, NoLinks, FALSE)]
    ELSE [game_state |->
            [gs EXCEPT !.current_page = next_page.text,
                       !.clicks_used = @ + 1,
                       !.path = Append(@, next_page.text)],
          resp |-> Response("navigate", next_page, "redirect_game", "none",
                            TRUE, NoGame, NoLinks, FALSE)]

\* navigate() dropping the stored game when the selection is empty
navigate_DropOnEmpty(gs, next_page) ==
    IF gs = NoGame
    THEN [game_state |-> gs,
          resp |-> Response("navigate", next_page, "redirect_index",
                            "No active game. Please start a new game.", FALSE,
                            NoGame, NoLinks, FALSE)]
    ELSE IF ~next_page.present \/ next_page.text = <<>>
    THEN [game_state |-> NoGame,
          resp |-> Response("navigate", next_page, "redirect_game",
                            "Invalid selection. Please try again.", TRUE,
                            NoGame, NoLinks, FALSE)]
    ELSE [game_state |->
            [gs EXCEPT !.current_page = next_page.text,
                       !.clicks_used = @ + 1,
                       !.path = Append(@, next_page.text)],
          resp |-> Response("navigate", next_page, "redirect_game", "none",
                            TRUE, NoGame, NoLinks, FALSE)]

\* navigate() counting two clicks for one navigation
navigate_DoubleCount(gs, next_page) ==
    IF gs = NoGame
    THEN [game_state |-> gs,
          resp |-> Response("navigate", next_page, "redirect_index",
                            "No active game. Please start a new game.", FALSE,
                            NoGame, NoLinks, FALSE)]
    ELSE IF ~next_page.present \/ next_page.text = <<>>
    THEN [game_state |-> gs,
          resp |-> Response("navigate", next_page, "redirect_game",
                            "Invalid selection. Please try again.", TRUE,
                            NoGame, NoLinks, FALSE)]
    ELSE [game_state |->
            [gs EXCEPT !.current_page = next_page.text,
                       !.clicks_used = @ + 2,
                       !.path = Append(Append(@, next_page.text), next_page.text)],
          resp |-> Response("navigate", next_page, "redirect_game", "none",
                            TRUE, NoGame, NoLinks, FALSE)]

\* navigate() forgetting to move current_page
navigate_StaleCurrent(gs, next_page) ==
    IF gs = NoGame
    THEN [game_state |-> gs,
          resp |-> Response("navigate", next_page, "redirect_index",
                            "No active game. Please start a new game.", FALSE,
                            NoGame, NoLinks, FALSE)]
    ELSE IF ~next_page.present \/ next_page.text = <<>>
    THEN [game_state |-> gs,
          resp |-> Response("navigate", next_page, "redirect_game",
                            "Invalid selection. Please try again.", TRUE,
                            NoGame, NoLinks, FALSE)]
    ELSE [game_state |->
            [gs EXCEPT !.clicks_used = @ + 1,
                       !.path = Append(@, next_page.text)],
          resp |-> Response("navigate", next_page, "redirect_game", "none",
                            TRUE, NoGame, NoLinks, FALSE)]

\* the game state and the response of navigate() for the posted next_page
navigate(gs, next_page) ==
    IF gs = NoGame
    THEN [game_state |-> gs,
          resp |-> Response("navigate", next_page, "redirect_index",
                            "No active game. Please start a new game.", FALSE,
                            NoGame, NoLinks, FALSE)]
    ELSE IF ~next_page.present \/ next_page.text = <<>>
    THEN [game_state |-> gs,
          resp |-> Response("navigate", next_page, "redirect_game",
                            "Invalid selection. Please try again.", TRUE,
                            NoGame, NoLinks, FALSE)]
    ELSE [game_state |->
            [gs EXCEPT !.current_page = next_page.text,
                       !.clicks_used = @ + 1,
                       !.path = Append(@, next_page.text)],
          resp |-> Response("navigate", next_page, "redirect_game", "none",
                            TRUE, NoGame, NoLinks, FALSE)]

\* POST /navigate
Navigate ==
    \E next_page \in NextPageFields :
        LET r == navigate(game_state, next_page)
        IN  /\ game_state.clicks_used < game_state.max_clicks + MaxOverrun
                \/ r.resp.flash # "none"
            /\ game_state' = r.game_state
            /\ resp' = r.resp
            /\ prev' = Summary(resp)
            /\ nav_count' = IF r.resp.flash = "none" THEN nav_count + 1
                            ELSE nav_count
            /\ UNCHANGED inflight

\* ---------------------------------------------------- app.py: reset_game
\* reset_game() popping without a default: KeyError when there is no game
reset_game_NoDefault(gs) ==
    [game_state |-> NoGame,
     resp |-> Response("reset", Absent,
                       IF gs = NoGame THEN "error" ELSE "redirect_index",
                       IF gs = NoGame THEN "KeyError" ELSE "none", gs # NoGame,
                       NoGame, NoLinks, FALSE)]

\* the game state and the response of reset_game()
reset_game(gs) ==
    [game_state |-> NoGame,
     resp |-> Response("reset", Absent, "redirect_index", "none", gs # NoGame,
                       NoGame, NoLinks, FALSE)]

\* GET /reset
Reset ==
    /\ game_state' = reset_game(game_state).game_state
    /\ resp' = reset_game(game_state).resp
    /\ prev' = Summary(resp)
    /\ nav_count' = 0
    /\ UNCHANGED inflight

Next == Index \/ Start \/ View \/ Navigate \/ Reset

Spec == Init /\ [][Next]_vars

\* ------------------------------------------- app.py: navigate requests racing
\* Two navigate requests of one browser in flight together.  Each request
\* has its own copy of the cookie session: navigate() reads game_state from
\* the cookie the request carried and answers with the cookie to store; the
\* browser keeps the cookie of the answer that arrived last.

\* a request in flight: the game state it read, the next_page it posted, and
\* the position of its answer among the answers (0: not answered yet)
Request(gs, next_page) == [read |-> gs, next_page |-> next_page, order |-> 0]

Answered == {i \in 1..Len(inflight) : inflight[i].order > 0}

\* POST /start, with no navigate request in flight
RaceStart == inflight = <<>> /\ Start

\* POST /navigate arrives and reads the session (app.py line 128), before
\* any request in flight has answered
NavRead ==
    \E next_page \in NextPageFields :
        /\ Len(inflight) < 2
        /\ Answered = {}
        /\ nav_count < MaxRaceClicks
        /\ inflight' = Append(inflight, Request(game_state, next_page))
        /\ UNCHANGED <<game_state, resp, prev, nav_count>>

\* the answer of request i stored with the game state navigate() computed
\* on the state the request read
NavWrite_Merge(i) ==
    /\ i \in 1..Len(inflight) /\ inflight[i].order = 0
    /\ LET r == navigate(game_state, inflight[i].next_page)
       IN  /\ game_state' = r.game_state
           /\ resp' = r.resp
           /\ nav_count' = IF r.resp.flash = "none" THEN nav_count + 1
                           ELSE nav_count
    /\ prev' = Summary(resp)
    /\ inflight' = [inflight EXCEPT ![i].order = Cardinality(Answered) + 1]

\* request i answers (app.py lines 134-146): the browser stores the game
\* state navigate() computed from the state the request read
NavWrite(i) ==
    /\ i \in 1..Len(inflight) /\ inflight[i].order = 0
    /\ LET r == navigate(inflight[i].read, inflight[i].next_page)
       IN  /\ game_state' = r.game_state
           /\ resp' = r.resp
           /\ nav_count' = IF r.resp.flash = "none" THEN nav_count + 1
                           ELSE nav_count
    /\ prev' = Summary(resp)
    /\ inflight' = [inflight EXCEPT ![i].order = Cardinality(Answered) + 1]

\* all requests in flight have answered
RaceDone ==
    /\ inflight # <<>>
    /\ Answered = 1..Len(inflight)
    /\ inflight' = <<>>
    /\ UNCHANGED <<game_state, resp, prev, nav_count>>

RaceNext == RaceStart \/ NavRead \/ (\E i \in 1..2 : NavWrite(i)) \/ RaceDone

SpecRace == Init /\ [][RaceNext]_vars

\* ================================================================ claims
HasGame == game_state # NoGame

NoSessionFlash == "No active game. Please start a new game."
EmptySelectionFlash == "Invalid selection. Please try again."
ValidationFlashes ==
    {"Invalid click count. Please enter a number between 1 and 10.",
     "Click count must be between 1 and 10.",
     "Please enter a valid Wikipedia article URL"}

\* the game is over: the clicks are used up, or the last request was a view
\* that found no outgoing links on the current page
Completed ==
    /\ HasGame
    /\ \/ game_state.clicks_used >= game_state.max_clicks
       \/ resp.op = "view" /\ resp.no_links

\* C1: whenever a game is stored, clicks_used is at most max_clicks.
C1_ClicksWithinMax ==
    HasGame => game_state.clicks_used <= game_state.max_clicks

\* C2: a navigate request on a completed game is answered with an error and
\* leaves the stored game as it was.
C2_CompletedNavigateRejected ==
    [][(Completed /\ resp'.op = "navigate")
        => (resp'.flash # "none" /\ game_state' = game_state)]_vars

\* C3: whenever a game is stored, the path has clicks_used + 1 elements.
C3_PathLength ==
    HasGame => Len(game_state.path) = game_state.clicks_used + 1

C3_Witness ==
    HasGame /\ resp.op = "navigate" /\ resp.flash = "none"
    /\ game_state.clicks_used >= 2

\* C4: once exactly max_clicks navigations have succeeded since the start,
\* the game is over (clicks_used >= max_clicks, and a view renders the
\* result page) and the path has max_clicks + 1 elements.
C4_DoneAfterMaxClicks ==
    (HasGame /\ nav_count = game_state.max_clicks)
        => /\ game_state.clicks_used >= game_state.max_clicks
           /\ Len(game_state.path) = game_state.max_clicks + 1
           /\ \A links \in LinkResults :
                game(game_state, links).kind = "render_result"
           /\ resp.op = "view" => resp.kind = "render_result"

C4_Witness ==
    /\ HasGame /\ nav_count = game_state.max_clicks
    /\ game_state.max_clicks = MaxClicks
    /\ resp.op = "view" /\ resp.kind = "render_result"
    /\ Len(resp.view.path) = MaxClicks + 1

\* C5: whenever a game is stored, the first element of the path is
\* start_page, and no navigate or view request changes start_page.
C5_StartPageFixed ==
    /\ [](HasGame => game_state.path[1] = game_state.start_page)
    /\ [][(HasGame /\ resp'.op \in {"navigate", "view"})
            => game_state'.start_page = game_state.start_page]_vars

C5_Witness ==
    /\ HasGame /\ resp.op = "navigate" /\ resp.flash = "none"
    /\ game_state.current_page # game_state.start_page
    /\ game_state.path[1] = game_state.start_page

\* C6: a view that directly follows a reset is answered with the no-game
\* redirect, whether or not the reset found a game.
C6_ViewAfterReset ==
    (prev.op = "reset" /\ resp.op = "view")
        => /\ resp.kind = "redirect_index"
           /\ resp.flash = NoSessionFlash
           /\ ~resp.had
           /\ resp.view = NoGame

C6_Witness ==
    prev.op = "reset" /\ prev.had /\ resp.op = "view"
    /\ resp.kind = "redirect_index"

\* C7: every reset succeeds and leaves no game stored; a reset directly
\* after a reset succeeds too and leaves the state of the first.
C7_ResetIdempotent ==
    /\ [](resp.op = "reset"
            => /\ resp.kind = "redirect_index" /\ resp.flash = "none"
               /\ game_state = NoGame)
    /\ [][(resp.op = "reset" /\ resp'.op = "reset")
            => (game_state' = game_state /\ resp'.kind = "redirect_index"
                /\ resp'.flash = "none")]_vars

C7_Witness ==
    /\ prev.op = "reset" /\ prev.had /\ prev.kind = "redirect_index"
    /\ resp.op = "reset" /\ ~resp.had /\ resp.kind = "redirect_index"
    /\ game_state = NoGame

C10_DeadEndStart ==
    /\ (resp.op = "start" /\ resp.kind = "redirect_game")
        => /\ game_state.clicks_used = 0
           /\ game_state.path = <<game_state.start_page>>
           /\ LET v == game(game_state, NoLinks)
              IN  /\ v.kind = "render_result" /\ v.no_links
                  /\ v.view.clicks_used = 0
    /\ (prev.op = "start" /\ prev.kind = "redirect_game" /\ resp.op = "view"
        /\ resp.links = NoLinks)
        => (resp.kind = "render_result" /\ resp.view.clicks_used = 0)

C10_Witness ==
    /\ prev.op = "start" /\ prev.kind = "redirect_game"
    /\ resp.op = "view" /\ resp.kind = "render_result" /\ resp.no_links
    /\ resp.view.clicks_used = 0 /\ resp.view.path = <<game_state.start_page>>

\* C11: from a game observed completed (clicks used up, or the last view
\* found no links), a navigate or view request leaves the game completed:
\* the clicks are still used up, or the request was a view that rendered
\* the result page, or a navigate that left the game as it was.
C11_CompletedStays ==
    [][(Completed /\ HasGame' /\ resp'.op \in {"navigate", "view"})
        => \/ game_state'.clicks_used >= game_state'.max_clicks
           \/ resp'.op = "view" /\ resp'.kind = "render_result"
           \/ resp'.op = "navigate" /\ game_state' = game_state]_vars

\* C12 (as claimed): a stored game is removed only by a reset request.
C12_OnlyResetRemoves ==
    [][(HasGame /\ ~HasGame') => resp'.op = "reset"]_vars

\* C12 (amended): a stored game is removed only by a reset request or by a
\* request for the entry page; no start, navigate or view request, failed
\* or not, removes it.
C12_OnlyResetOrIndexRemoves ==
    [][(HasGame /\ ~HasGame') => resp'.op \in {"reset", "index"}]_vars

C12_Witness ==
    resp.op = "index" /\ resp.had /\ ~HasGame /\ resp.kind = "render_index"

\* C13: every stored game has max_clicks in 1..10, and no navigate or view
\* request changes max_clicks.
C13_MaxClicksFixed ==
    /\ [](HasGame => game_state.max_clicks \in MinClicks..MaxClicks)
    /\ [][(HasGame /\ HasGame' /\ resp'.op \in {"navigate", "view"})
            => game_state'.max_clicks = game_state.max_clicks]_vars

C13_Witness ==
    /\ HasGame /\ game_state.max_clicks = MaxClicks
    /\ resp.op = "navigate" /\ resp.flash = "none"
    /\ game_state.clicks_used >= 1

\* C18: a navigate request with a non-empty next_page on a game whose
\* clicks are not used up succeeds whatever the page is: it appends that
\* page to the path, adds one to clicks_used and makes it current_page.
C18_NavigateFollowsAnyPage ==
    [][(HasGame /\ game_state.clicks_used < game_state.max_clicks
        /\ resp'.op = "navigate" /\ resp'.req.present
        /\ resp'.req.text # <<>>)
        => /\ resp'.flash = "none" /\ resp'.kind = "redirect_game"
           /\ game_state' =
                [game_state EXCEPT !.current_page = resp'.req.text,
                                   !.clicks_used = @ + 1,
                                   !.path = Append(@, resp'.req.text)]]_vars

\* a navigation right after the start, before any view offered a link
C18_Witness ==
    /\ prev.op = "start" /\ prev.kind = "redirect_game"
    /\ resp.op = "navigate" /\ resp.flash = "none"
    /\ game_state.clicks_used = 1
    /\ game_state.path = <<game_state.start_page, resp.req.text>>
    /\ game_state.current_page # game_state.start_page

\* C19: a start request that succeeds stores a fresh game, also over a
\* stored one: clicks_used = 0, path = <<start_page>>, current_page =
\* start_page, and no navigation counted.
C19_StartReplaces ==
    /\ [](resp.op = "start" /\ resp.kind = "redirect_game"
            => /\ HasGame /\ game_state.clicks_used = 0
               /\ game_state.path = <<game_state.start_page>>
               /\ game_state.current_page = game_state.start_page
               /\ nav_count = 0)
    /\ [][(HasGame /\ resp'.op = "start" /\ resp'.kind = "redirect_game")
            => (resp'.had /\ game_state'.clicks_used = 0
                /\ Len(game_state'.path) = 1)]_vars

C19_Witness ==
    /\ resp.op = "start" /\ resp.kind = "redirect_game" /\ resp.had
    /\ game_state.clicks_used = 0
    /\ game_state.path = <<game_state.start_page>>

\* C20: whenever a game is stored, current_page is the last element of
\* the path.
C20_CurrentIsLast ==
    HasGame => game_state.current_page = game_state.path[Len(game_state.path)]

C20_Witness ==
    /\ HasGame /\ resp.op = "navigate" /\ resp.flash = "none"
    /\ game_state.clicks_used >= 2
    /\ game_state.current_page # game_state.path[Len(game_state.path) - 1]
    /\ game_state.current_page = game_state.path[Len(game_state.path)]

\* the ways one character of a title can be written in a URL
CharEncodings(c) ==
    CASE c = " " -> {" ", "_", "%20", "%5F"}
      [] c = "A" -> {"A", "%41"}
      [] c = "B" -> {"B", "%42"}
      [] OTHER -> {c}

\* the ways a title can be written in a URL
TitleEncodings(t) ==
    {e \in [1..Len(t) -> UNION {CharEncodings(t[i]) : i \in 1..Len(t)}] :
        \A i \in 1..Len(t) : e[i] \in CharEncodings(t[i])}

WikiHosts == {"en.wikipedia.org", "wikipedia.org"}

\* scheme and host variants in front of the title
UrlPrefixes ==
    {<<sc, h, "/wiki/">> : sc \in HttpSchemes, h \in WikiHosts}
    \cup {<<h, "/wiki/">> : h \in WikiHosts}

\* every URL of an article
UrlsOf(t) == {p \o e : p \in UrlPrefixes, e \in TitleEncodings(t)}

\* every URL of every article resolves to the article's title, and a start
\* with it and a valid click count creates a game that starts there
AllUrlsResolve ==
    \A t \in MainArticles : \A u \in UrlsOf(t) :
        /\ validate_wikipedia_url(u, "ok") = t
        /\ \A c \in ClickFields :
            LET chk == StartCheck(c, Field(u), "ok", NoAnswers)
            IN  ClickCount(c).ok
                    => /\ chk.ok
                       /\ start_game(NoGame, chk).game_state.start_page = t

\* C16: a start with a URL of an article stores the article's one title as
\* start_page, whichever the encoding of the title (blank, underscore,
\* percent escapes) and whichever the scheme and host variant.
C16_OneTitlePerArticle ==
    /\ AllUrlsResolve
    /\ (resp.op = "start" /\ resp.kind = "redirect_game")
        => game_state.start_page \in MainArticles

C16_Witness ==
    /\ resp.op = "start" /\ resp.kind = "redirect_game"
    /\ game_state.start_page = ArtAB
    /\ Cardinality(UrlsOf(ArtAB) \cap {u.text : u \in UrlFields}) >= 2

RandomFailFlash == "Failed to get a random Wikipedia page. Please try again."

\* for every run of answers of the random query: at most max_attempts
\* requests are made, the title of the first answer that has one is
\* returned after that many requests, None after max_attempts requests
\* when no answer has one; and a start without url succeeds exactly when a
\* title was obtained, and flashes the random-page error otherwise
RandomRetryCorrect ==
    \A o \in RandomAnswers :
        LET r == get_random_wikipedia_page(o)
            Got(i) == o[i].kind = "title" /\ o[i].title # <<>>
            hits == {i \in 1..max_attempts : Got(i)}
        IN  /\ r.attempts \in 1..max_attempts
            /\ IF hits = {}
               THEN r.title = NoTitle /\ r.attempts = max_attempts
               ELSE /\ r.attempts \in hits
                    /\ \A i \in hits : r.attempts <= i
                    /\ r.title = o[r.attempts].title
            /\ \A u \in BlankUrls :
                LET chk == StartCheck(Absent, u, "ok", o)
                IN  IF hits = {}
                    THEN ~chk.ok /\ chk.flash = RandomFailFlash
                    ELSE chk.ok /\ chk.start_page = r.title

\* C15: the random start makes at most 5 requests and returns the first
\* title obtained; when all 5 fail the start request fails with the
\* random-page error, creates no game and leaves a stored game as it was.
C15_RandomStartBounded ==
    /\ [](RandomRetryCorrect)
    /\ [](resp.op = "start" /\ resp.flash = RandomFailFlash
            => resp.kind = "redirect_index" /\ (HasGame <=> resp.had))
    /\ [][(resp'.op = "start" /\ resp'.flash = RandomFailFlash)
            => game_state' = game_state]_vars

C15_Witness ==
    /\ resp.op = "start" /\ resp.flash = RandomFailFlash
    /\ resp.kind = "redirect_index" /\ ~resp.had /\ ~HasGame
    /\ get_random_wikipedia_page(NoAnswers).attempts = max_attempts

\* the view asked the directory for the links of the current page
Queried(r) == r.op = "view" /\ (r.kind = "render_game" \/ r.no_links)

\* C14: a view request leaves the stored game (clicks_used, path,
\* current_page, max_clicks) as it was, and two consecutive views return
\* pages of different kinds only when both asked the directory for links
\* and got different answers.
C14_ViewIdempotent ==
    [][resp'.op = "view"
        => /\ game_state' = game_state
           /\ (resp.op = "view" /\ resp'.kind # resp.kind)
                => /\ Queried(resp) /\ Queried(resp')
                   /\ resp'.links # resp.links]_vars

C14_Witness ==
    /\ prev.op = "view" /\ prev.kind = "render_game"
    /\ resp.op = "view" /\ resp.kind = "render_game"
    /\ game_state.clicks_used >= 1 /\ resp.view = game_state
    /\ game_state.clicks_used < game_state.max_clicks

\* the request in flight that answered last
LastAnswered == CHOOSE i \in Answered : inflight[i].order = Cardinality(Answered)

\* C17: when two navigate requests that read the same game state have both
\* answered, the stored game is what navigate() makes of that state for
\* the request that answered last, nothing of the other request is merged
\* in (at most one click more than the state read), and the path still has
\* clicks_used + 1 elements.
C17_LastWriteWins ==
    (Len(inflight) = 2 /\ Answered = {1, 2})
        => /\ inflight[1].read = inflight[2].read
           /\ game_state = navigate(inflight[LastAnswered].read,
                                    inflight[LastAnswered].next_page).game_state
           /\ game_state.clicks_used <= inflight[1].read.clicks_used + 1
           /\ HasGame => Len(game_state.path) = game_state.clicks_used + 1

C17_Witness ==
    /\ Len(inflight) = 2 /\ Answered = {1, 2}
    /\ inflight[1].next_page = Field(ArtA)
    /\ inflight[2].next_page = Field(ArtAB)
    /\ inflight[1].order = 2
    /\ inflight[1].read.clicks_used = 1
    /\ game_state.clicks_used = 2
    /\ game_state.current_page = ArtA

====
